---- MODULE Spec2Model ----
(***************************************************************************)
(* The HTTP call pipeline of core-go: the entry points of http.go          *)
(* (HttpGet/HttpPost/...), of core.go (Get/Post/.../Call) and of the third *)
(* variant (unnamed/part_003), their call/makeCall bodies and the          *)
(* classification of the response against the expected status codes.      *)
(*                                                                         *)
(* Beside it: the WebSocket listen loops (ws.go, websocket.go), the query  *)
(* helper AppendHttpQueryParam (http.go), StrSliceDiff (unnamed/part_002)  *)
(* and several calls running at once on one Client.  Each has a variable   *)
(* and a specification of its own; the other variables rest meanwhile.     *)
(*                                                                         *)
(* Go strings and byte slices are sequences of chunks (TLA+ strings);      *)
(* concatenation is \o and the empty string is << >>.  URLs are sequences  *)
(* of single characters, JSON texts are sequences of lexemes.              *)
(***************************************************************************)
EXTENDS Integers, Sequences, FiniteSets, TLC

VARIABLES pc, args, request, local, trace, hdr, wire, res, response, ret, out,
          ws, qp, sd, cc

\* one call at a time through the HTTP pipeline
httpVars == <<pc, args, request, local, trace, hdr, wire, res, response, ret, out>>

\* ws: a listen loop; qp: a query string under construction; sd: one run of
\* StrSliceDiff; cc: the calls in flight on one Client
sideVars == <<ws, qp, sd, cc>>

vars == <<pc, args, request, local, trace, hdr, wire, res, response, ret, out,
          ws, qp, sd, cc>>

(***************************************************************************)
(* Bounds of the model.                                                    *)
(***************************************************************************)
\* longest expected-status list a caller passes
MaxExpected == 2

(***************************************************************************)
(* Program constants.                                                      *)
(***************************************************************************)
StatusOK == 200

MethodGet == "GET"
MethodPost == "POST"
MethodPut == "PUT"
MethodPatch == "PATCH"
MethodDelete == "DELETE"

Range(s) == {s[i] : i \in DOMAIN s}

(***************************************************************************)
(* net/url.Parse, restricted to the checks the model's URLs can trigger:   *)
(* control bytes, the scheme scan of getScheme, and the colon test on the  *)
(* first path segment of a scheme-less relative URL.  Host, port and       *)
(* percent-escape validation are not modelled; the URLs below contain no   *)
(* '%', '#', '[' or '@'.                                                   *)
(***************************************************************************)
CtlBytes == {"\t", "\n"}

Letters ==
    {"a", "b", "c", "d", "e", "f", "g", "h", "i", "j", "k", "l", "m",
     "n", "o", "p", "q", "r", "s", "t", "u", "v", "w", "x", "y", "z"}

SchemeExtra == {"0", "1", "2", "3", "4", "5", "6", "7", "8", "9", "+", "-", "."}

\* index of the first element of s that is in set, or Len(s) + 1
RECURSIVE IndexAny(_, _, _)
IndexAny(s, set, i) ==
    IF i > Len(s) THEN Len(s) + 1
    ELSE IF s[i] \in set THEN i
    ELSE IndexAny(s, set, i + 1)

\* getScheme: [err, scheme, rest]
RECURSIVE getScheme(_, _)
getScheme(rawURL, i) ==
    IF i > Len(rawURL) THEN [err |-> << >>, scheme |-> << >>, rest |-> rawURL]
    ELSE LET c == rawURL[i] IN
         CASE c \in Letters -> getScheme(rawURL, i + 1)
           [] c \in SchemeExtra ->
                IF i = 1 THEN [err |-> << >>, scheme |-> << >>, rest |-> rawURL]
                ELSE getScheme(rawURL, i + 1)
           [] c = ":" ->
                IF i = 1
                THEN [err |-> <<"missing protocol scheme">>, scheme |-> << >>, rest |-> << >>]
                ELSE [err |-> << >>, scheme |-> SubSeq(rawURL, 1, i - 1),
                      rest |-> SubSeq(rawURL, i + 1, Len(rawURL))]
           [] OTHER -> [err |-> << >>, scheme |-> << >>, rest |-> rawURL]

HasPrefix(s, p) == Len(s) >= Len(p) /\ SubSeq(s, 1, Len(p)) = p

\* the *url.Error text: parse "<url>": <reason>
UrlError(rawURL, reason) == <<"parse \"">> \o rawURL \o <<"\": ">> \o reason

\* url.Parse: [err, Path]; err is << >> when the URL parses
url_Parse(rawURL) ==
    IF \E i \in DOMAIN rawURL : rawURL[i] \in CtlBytes
    THEN [err |-> UrlError(rawURL, <<"net/url: invalid control character in URL">>),
          Path |-> << >>]
    ELSE
      LET gs == getScheme(rawURL, 1) IN
      IF gs.err # << >> THEN [err |-> UrlError(rawURL, gs.err), Path |-> << >>]
      ELSE
        LET q == IndexAny(gs.rest, {"?"}, 1)
            rest == SubSeq(gs.rest, 1, q - 1)
        IN
        IF ~HasPrefix(rest, <<"/">>)
        THEN IF gs.scheme # << >>
             THEN [err |-> << >>, Path |-> << >>]          \* opaque URL
             ELSE IF IndexAny(rest, {":"}, 1) < IndexAny(rest, {"/"}, 1)
             THEN [err |-> UrlError(rawURL,
                              <<"first path segment in URL cannot contain colon">>),
                   Path |-> << >>]
             ELSE [err |-> << >>, Path |-> rest]
        ELSE IF HasPrefix(rest, <<"/", "/">>)
        THEN LET a == SubSeq(rest, 3, Len(rest))
                 s == IndexAny(a, {"/"}, 1)
             IN [err |-> << >>, Path |-> SubSeq(a, s, Len(a))]
        ELSE [err |-> << >>, Path |-> rest]

(***************************************************************************)
(* encoding/json on lexeme sequences: objects, arrays, strings, numbers    *)
(* and null.  A JSON string lexeme is the quoted word.                     *)
(***************************************************************************)
JsonWords ==
    {"message", "Message", "bad request", "id", "count", "x", "evil",
     "CodeExpected", "CodeReceived", "ParsedUrl", "error", "o1"}

NumberLexemes == ("7" :> 7) @@ ("200" :> 200) @@ ("0" :> 0)

Quote(w) == "\"" \o w \o "\""

StringLexemes == {Quote(w) : w \in JsonWords}

Unquote == [t \in StringLexemes |-> CHOOSE w \in JsonWords : t = Quote(w)]

IsStringLexeme(t) == t \in StringLexemes

StringOf(t) == Unquote[t]

JNull == [type |-> "null", s |-> "", n |-> 0, m |-> << >>]

JString(w) == [type |-> "string", s |-> w, n |-> 0, m |-> << >>]

JNumber(k) == [type |-> "number", s |-> "", n |-> k, m |-> << >>]

\* m: the elements of an array, or the [key, val] members of an object
JArray(elems) == [type |-> "array", s |-> "", n |-> 0, m |-> elems]

JObject(members) == [type |-> "object", s |-> "", n |-> 0, m |-> members]

ParseFail == [ok |-> FALSE, v |-> JNull, rest |-> << >>]

ParseOk(v, rest) == [ok |-> TRUE, v |-> v, rest |-> rest]

RECURSIVE ParseValue(_), ParseMembers(_, _), ParseElems(_, _)

ParseValue(toks) ==
    IF toks = << >> THEN ParseFail
    ELSE LET t == Head(toks)
             r == Tail(toks)
         IN
         CASE t = "null" -> ParseOk(JNull, r)
           [] IsStringLexeme(t) -> ParseOk(JString(StringOf(t)), r)
           [] t \in DOMAIN NumberLexemes -> ParseOk(JNumber(NumberLexemes[t]), r)
           [] t = "{" ->
                IF r # << >> /\ Head(r) = "}" THEN ParseOk(JObject(<< >>), Tail(r))
                ELSE ParseMembers(r, << >>)
           [] t = "[" ->
                IF r # << >> /\ Head(r) = "]" THEN ParseOk(JArray(<< >>), Tail(r))
                ELSE ParseElems(r, << >>)
           [] OTHER -> ParseFail

ParseMembers(toks, acc) ==
    IF Len(toks) < 2 \/ ~IsStringLexeme(toks[1]) \/ toks[2] # ":" THEN ParseFail
    ELSE LET pv == ParseValue(SubSeq(toks, 3, Len(toks))) IN
         IF ~pv.ok \/ pv.rest = << >> THEN ParseFail
         ELSE LET acc2 == Append(acc, [key |-> StringOf(toks[1]), val |-> pv.v]) IN
              CASE Head(pv.rest) = "}" -> ParseOk(JObject(acc2), Tail(pv.rest))
                [] Head(pv.rest) = "," -> ParseMembers(Tail(pv.rest), acc2)
                [] OTHER -> ParseFail

ParseElems(toks, acc) ==
    LET pv == ParseValue(toks) IN
    IF ~pv.ok \/ pv.rest = << >> THEN ParseFail
    ELSE LET acc2 == Append(acc, pv.v) IN
         CASE Head(pv.rest) = "]" -> ParseOk(JArray(acc2), Tail(pv.rest))
           [] Head(pv.rest) = "," -> ParseElems(Tail(pv.rest), acc2)
           [] OTHER -> ParseFail

\* json.checkValid: the whole text is one JSON value
checkValid(data) ==
    LET pv == ParseValue(data) IN pv.ok /\ pv.rest = << >>

(***************************************************************************)
(* json.Unmarshal into a struct.  shape lists the struct's fields as       *)
(* [name, key, type]: key is the json tag (or the field name when there is *)
(* none), "-" for a field that is never decoded; type is "string", "int"   *)
(* or "ints" ([]int).  A key matches a field exactly or, failing that,     *)
(* case-insensitively.  A member of the wrong type is skipped, the first   *)
(* such error is kept and decoding goes on.                                *)
(***************************************************************************)
Fold ==
    [w \in JsonWords |->
        CASE w = "Message" -> "message"
          [] w = "CodeExpected" -> "codeexpected"
          [] w = "CodeReceived" -> "codereceived"
          [] w = "ParsedUrl" -> "parsedurl"
          [] OTHER -> w]

\* case folding of a json tag or field name
FoldKey(k) == IF k \in JsonWords THEN Fold[k] ELSE k

\* a decoded Go string
GoStr(w) == IF w = "" THEN << >> ELSE <<w>>

\* index in shape of the field a member key decodes into, 0 if none
fieldFor(key, shape) ==
    LET named == {i \in DOMAIN shape : shape[i].key # "-"}
        exact == {i \in named : shape[i].key = key}
        folded == {i \in named : FoldKey(shape[i].key) = FoldKey(key)}
        min(S) == CHOOSE i \in S : \A j \in S : i <= j
    IN IF exact # {} THEN min(exact)
       ELSE IF folded # {} THEN min(folded)
       ELSE 0

\* one member value stored into a field of the given type: [ok, set, v]
storeValue(type, jv, old) ==
    CASE jv.type = "null" ->
           IF type = "ints" THEN [ok |-> TRUE, set |-> TRUE, v |-> << >>]
           ELSE [ok |-> TRUE, set |-> FALSE, v |-> old]
      [] type = "string" /\ jv.type = "string" ->
           [ok |-> TRUE, set |-> TRUE, v |-> GoStr(jv.s)]
      [] type = "int" /\ jv.type = "number" ->
           [ok |-> TRUE, set |-> TRUE, v |-> jv.n]
      [] type = "ints" /\ jv.type = "array" ->
           [ok |-> \A i \in DOMAIN jv.m : jv.m[i].type \in {"number", "null"},
            set |-> TRUE,
            v |-> [i \in DOMAIN jv.m |->
                     IF jv.m[i].type = "number" THEN jv.m[i].n ELSE 0]]
      [] OTHER -> [ok |-> FALSE, set |-> FALSE, v |-> old]

UnmarshalTypeError == "json: cannot unmarshal value into Go value"

SyntaxError == "json: invalid character"

UnsupportedTypeError == "json: unsupported type"

RECURSIVE decodeMembers(_, _, _, _)
decodeMembers(members, i, shape, st) ==
    IF i > Len(members) THEN st
    ELSE LET f == fieldFor(members[i].key, shape) IN
         IF f = 0 THEN decodeMembers(members, i + 1, shape, st)
         ELSE LET name == shape[f].name
                  sv == storeValue(shape[f].type, members[i].val, st.val[name])
              IN decodeMembers(members, i + 1, shape,
                   [err |-> IF ~sv.ok /\ st.err = "" THEN UnmarshalTypeError ELSE st.err,
                    val |-> [st.val EXCEPT ![name] = sv.v],
                    written |-> IF sv.set THEN st.written \cup {name} ELSE st.written])

\* json.Unmarshal(data, &target): [err, val, written]; err is "" for nil
Unmarshal(data, shape, target) ==
    LET st0 == [err |-> "", val |-> target, written |-> {}] IN
    IF ~checkValid(data) THEN [st0 EXCEPT !.err = SyntaxError]
    ELSE LET v == ParseValue(data).v IN
         CASE v.type = "null" -> st0
           [] v.type = "object" -> decodeMembers(v.m, 1, shape, st0)
           [] OTHER -> [st0 EXCEPT !.err = UnmarshalTypeError]

(***************************************************************************)
(* Values a caller passes as request, and json.Marshal of them.            *)
(***************************************************************************)
CallerRequests ==
    {[kind |-> "nil"], [kind |-> "order"], [kind |-> "chan"]}

\* json.Marshal(request): [err, bytes]
Marshal(v) ==
    CASE v.kind = "nil" -> [err |-> "", bytes |-> <<"null">>]
      [] v.kind = "order" ->
           [err |-> "", bytes |-> <<"{", Quote("id"), ":", Quote("o1"), "}">>]
      [] OTHER -> [err |-> UnsupportedTypeError, bytes |-> << >>]

\* the struct a caller passes as response: Id string `json:"id"`, Count int `json:"count"`
ResponseShape ==
    <<[name |-> "Id", key |-> "id", type |-> "string"],
      [name |-> "Count", key |-> "count", type |-> "int"]>>

ZeroResponse == [Id |-> << >>, Count |-> 0]

(***************************************************************************)
(* The three variants of the pipeline: "http" is http.go, "core" is        *)
(* core.go, "part3" is unnamed/part_003.                                   *)
(***************************************************************************)
Variants == {"http", "core", "part3"}

\* the method constants of net/http the wrappers use
WrapperMethods == {MethodGet, MethodPost, MethodPut, MethodPatch, MethodDelete}

\* the method each entry point passes to call
entryMethod(entry) ==
    CASE entry \in {"HttpPost", "Post"} -> MethodPost
      [] entry \in {"HttpGet", "Get"} -> MethodGet
      [] entry \in {"HttpPut", "Put"} -> MethodPut
      [] entry \in {"HttpDelete", "Delete"} -> MethodDelete
      [] entry \in {"HttpPatch", "Patch"} -> MethodPatch

HttpEntries == {"HttpPost", "HttpGet", "HttpPut", "HttpDelete", "HttpPatch"}

WrapperEntries == {"Post", "Get", "Put", "Delete", "Patch"}

\* a slip: the wrappers also accept 201 Created
wrapperStatusCodes_2xx == <<StatusOK, 201>>

\* []int{http.StatusOK}: the expected codes the wrappers of core.go pass
wrapperStatusCodes == <<StatusOK>>

\* a method string that is not an HTTP token (it contains a space)
BadMethod == "BAD METHOD"

\* net/http validMethod on the model's method strings
validMethod(method) == method \in WrapperMethods

GoodBaseUrl == <<"h", "t", "t", "p", ":", "/", "/", "h">>

\* ":h" has no scheme; the second one ends in a control byte
BaseUrls == {GoodBaseUrl, <<":", "h">>, GoodBaseUrl \o <<"\t">>}

Paths == {<<"/", "o">>}

EmptyQueryParams == << >>

Queries == {EmptyQueryParams, <<"?", "a", "=", "1">>}

\* Client: the base URL and whether Credentials is non-nil
Clients == [HttpBaseUrl : BaseUrls, Credentials : BOOLEAN]

ExpectedCodes == {StatusOK, 201}

\* the status codes a transport may report; 0 is what net/http reports for
\* a status line "HTTP/1.1 000"
StatusCodes == {0, StatusOK, 201, 400}

ExpectedLists == UNION {[1..n -> ExpectedCodes] : n \in 0..MaxExpected}

\* response bodies, as JSON lexemes
ResponseBodies ==
    {<<"oops">>,
     <<Quote("x")>>,
     <<"null">>,
     <<"{", "}">>,
     <<"{", Quote("message"), ":", Quote("bad request"), "}">>,
     <<"{", Quote("Message"), ":", Quote("x"), "}">>,
     <<"{", Quote("message"), ":", "7", "}">>,
     <<"{", Quote("error"), ":", Quote("x"), "}">>,
     <<"{", Quote("message"), ":", Quote("x"), ",",
            Quote("CodeExpected"), ":", "[", "7", "]", ",",
            Quote("CodeReceived"), ":", "7", ",",
            Quote("ParsedUrl"), ":", Quote("evil"), "}">>,
     <<"{", Quote("id"), ":", Quote("o1"), ",", Quote("count"), ":", "7", "}">>,
     <<"{", Quote("id"), ":", "7", ",", Quote("count"), ":", "7", "}">>}

(***************************************************************************)
(* ApiError, ApiResponse, apiRequest.                                      *)
(***************************************************************************)
\* the nil *ApiError
NilApiError ==
    [nil |-> TRUE, Message |-> << >>, CodeExpected |-> << >>,
     CodeReceived |-> 0, ParsedUrl |-> << >>]

\* var apiErr ApiError
ZeroApiError ==
    [Message |-> << >>, CodeExpected |-> << >>, CodeReceived |-> 0, ParsedUrl |-> << >>]

\* &ApiError{...}
ApiError(e) ==
    [nil |-> FALSE, Message |-> e.Message, CodeExpected |-> e.CodeExpected,
     CodeReceived |-> e.CodeReceived, ParsedUrl |-> e.ParsedUrl]

\* http.go and part_003: only Message is decoded (the others are `json:"-"`)
ApiErrorShapeTagged ==
    <<[name |-> "Message", key |-> "message", type |-> "string"],
      [name |-> "CodeExpected", key |-> "-", type |-> "ints"],
      [name |-> "CodeReceived", key |-> "-", type |-> "int"],
      [name |-> "ParsedUrl", key |-> "-", type |-> "string"]>>

\* core.go: the three other fields carry no tag and decode under their names
ApiErrorShapeCore ==
    <<[name |-> "Message", key |-> "message", type |-> "string"],
      [name |-> "CodeExpected", key |-> "CodeExpected", type |-> "ints"],
      [name |-> "CodeReceived", key |-> "CodeReceived", type |-> "int"],
      [name |-> "ParsedUrl", key |-> "ParsedUrl", type |-> "string"]>>

ApiErrorShape(variant) ==
    IF variant = "core" THEN ApiErrorShapeCore ELSE ApiErrorShapeTagged

NoRequest ==
    [built |-> FALSE, Path |-> << >>, Query |-> << >>, HttpMethod |-> "",
     Body |-> << >>, ExpectedHttpStatusCodes |-> << >>,
     Client |-> [HttpBaseUrl |-> << >>, Credentials |-> FALSE]]

\* &apiRequest{...} as call builds it
apiRequest(path, query, httpMethod, body, expected, client) ==
    [built |-> TRUE, Path |-> path, Query |-> query, HttpMethod |-> httpMethod,
     Body |-> body, ExpectedHttpStatusCodes |-> expected, Client |-> client]

\* &ApiResponse{Request: request}
ApiResponse(req) ==
    [Request |-> req, Body |-> << >>, HttpStatusCode |-> 0,
     HttpStatusMsg |-> << >>, Error |-> NilApiError]

(***************************************************************************)
(* makeCall, up to the construction of the wire request.                   *)
(***************************************************************************)
\* a slip: PATCH left out of the test, as in core.go
bodyCarryingHttp_noPatch == {MethodPost, MethodPut}

\* http.go: POST, PUT and PATCH carry the body
bodyCarryingHttp == {MethodPost, MethodPut, MethodPatch}

\* a slip: PATCH added to the test, as in http.go
bodyCarryingCore_withPatch == {MethodPost, MethodPut, MethodPatch}

\* core.go and part_003: POST and PUT carry the body
bodyCarryingCore == {MethodPost, MethodPut}

\* the methods whose body goes on the wire
bodyCarrying(variant) ==
    IF variant = "http" THEN bodyCarryingHttp ELSE bodyCarryingCore

\* a slip: the descriptor's body is sent whatever the method
requestBodyOf_always(variant, req) == req.Body

\* var requestBody []byte; if method carries a body { requestBody = request.Body }
requestBodyOf(variant, req) ==
    IF req.HttpMethod \in bodyCarrying(variant) THEN req.Body ELSE << >>

callUrlOf(req) == req.Client.HttpBaseUrl \o req.Path \o req.Query

\* http.NewRequestWithContext: the error text, << >> for nil
NewRequestWithContext(ctxNil, method, url) ==
    IF ~validMethod(method) THEN <<"net/http: invalid method ", Quote(method)>>
    ELSE IF ctxNil THEN <<"net/http: nil Context">>
    ELSE url_Parse(url).err

\* a slip: ParsedUrl is left empty
invalidUrlError_noParsedUrl(callUrl, err) ==
    ApiError([ZeroApiError EXCEPT
                !.Message = <<"invalid URL: ">> \o callUrl \o <<" - ">> \o err,
                !.CodeReceived = 0])

\* the *ApiError of a URL that does not parse
invalidUrlError(callUrl, err) ==
    ApiError([ZeroApiError EXCEPT
                !.Message = <<"invalid URL: ">> \o callUrl \o <<" - ">> \o err,
                !.ParsedUrl = callUrl,
                !.CodeReceived = 0])

\* the *ApiError of a failure that carries only err.Error(): request
\* construction, transport, body read
plainError(err) ==
    ApiError([ZeroApiError EXCEPT !.Message = err, !.CodeReceived = 0])

\* a slip: no return after a failed request construction
failedAt_ignoreRequestError(parseErr, reqErr) ==
    IF parseErr # << >> THEN "urlparse" ELSE ""

\* the step at which makeCall returns early: "" when it goes on to headersFunc
failedAt(parseErr, reqErr) ==
    IF parseErr # << >> THEN "urlparse"
    ELSE IF reqErr # << >> THEN "newrequest"
    ELSE ""

NoLocal == [callUrl |-> << >>, path |-> << >>, requestBody |-> << >>]

\* [response, local, trace, failed]: failed when makeCall has returned
makeCallBegin(variant, req, ctxNil) ==
    LET callUrl == callUrlOf(req)
        parsedUrl == url_Parse(callUrl)
        requestBody == requestBodyOf(variant, req)
        reqErr == NewRequestWithContext(ctxNil, req.HttpMethod, callUrl)
        locals == [callUrl |-> callUrl, path |-> parsedUrl.Path,
                   requestBody |-> requestBody]
        stop == failedAt(parsedUrl.err, reqErr)
    IN
    CASE stop = "urlparse" ->
           [response |-> [ApiResponse(req) EXCEPT
                            !.Error = invalidUrlError(callUrl, parsedUrl.err)],
            local |-> [locals EXCEPT !.requestBody = << >>],
            trace |-> <<"urlparse">>, failed |-> TRUE]
      [] stop = "newrequest" ->
           [response |-> [ApiResponse(req) EXCEPT !.Error = plainError(reqErr)],
            local |-> locals,
            trace |-> <<"urlparse", "newrequest">>, failed |-> TRUE]
      [] OTHER ->
           [response |-> ApiResponse(req), local |-> locals,
            trace |-> <<"urlparse", "newrequest">>, failed |-> FALSE]

\* if err != nil after Do: response.Error is set and makeCall returns
transportFailed(resp, err) == [resp EXCEPT !.Error = plainError(err)]

\* a slip: the read error is dropped
readFailed_noError(resp, err) == resp

\* if err != nil after ReadAll: response.Error is set and makeCall returns
readFailed(resp, err) == [resp EXCEPT !.Error = plainError(err)]

(***************************************************************************)
(* makeCall, after the body has been read: the classification.             *)
(***************************************************************************)
\* a slip of the loop: only the first expected code is compared
isExpectedStatusCode_firstOnly(status, expected, i) ==
    Len(expected) >= 1 /\ status = expected[1]

\* for _, code := range expected { if status == code { found = true; break } }
RECURSIVE isExpectedStatusCode(_, _, _)
isExpectedStatusCode(status, expected, i) ==
    IF i > Len(expected) THEN FALSE
    ELSE IF status = expected[i] THEN TRUE
    ELSE isExpectedStatusCode(status, expected, i + 1)

\* a slip: CodeReceived keeps what the decoding left in it
statusError_keepCodeReceived(variant, req, callUrl, status, body) ==
    LET u == Unmarshal(body, ApiErrorShape(variant), ZeroApiError)
        e1 == IF u.err # "" THEN [u.val EXCEPT !.Message = body] ELSE u.val
        e2 == [e1 EXCEPT !.CodeExpected = req.ExpectedHttpStatusCodes]
        e4 == [e2 EXCEPT !.ParsedUrl = callUrl]
    IN ApiError(e4)

\* a slip: no fallback to the raw body when the decoding fails
statusError_noFallback(variant, req, callUrl, status, body) ==
    LET u == Unmarshal(body, ApiErrorShape(variant), ZeroApiError)
        e2 == [u.val EXCEPT !.CodeExpected = req.ExpectedHttpStatusCodes]
        e3 == [e2 EXCEPT !.CodeReceived = status]
        e4 == [e3 EXCEPT !.ParsedUrl = callUrl]
    IN ApiError(e4)

\* a slip: ParsedUrl is set only when the body did not supply one
statusError_trustBodyUrl(variant, req, callUrl, status, body) ==
    LET u == Unmarshal(body, ApiErrorShape(variant), ZeroApiError)
        e1 == IF u.err # "" THEN [u.val EXCEPT !.Message = body] ELSE u.val
        e2 == [e1 EXCEPT !.CodeExpected = req.ExpectedHttpStatusCodes]
        e3 == [e2 EXCEPT !.CodeReceived = status]
        e4 == IF e3.ParsedUrl = << >> THEN [e3 EXCEPT !.ParsedUrl = callUrl] ELSE e3
    IN ApiError(e4)

\* a slip: the raw body also stands in for a decoded but empty Message
statusError_fallbackWhenEmpty(variant, req, callUrl, status, body) ==
    LET u == Unmarshal(body, ApiErrorShape(variant), ZeroApiError)
        e1 == IF u.err # "" \/ u.val.Message = << >>
              THEN [u.val EXCEPT !.Message = body] ELSE u.val
        e2 == [e1 EXCEPT !.CodeExpected = req.ExpectedHttpStatusCodes]
        e3 == [e2 EXCEPT !.CodeReceived = status]
        e4 == [e3 EXCEPT !.ParsedUrl = callUrl]
    IN ApiError(e4)

\* the *ApiError of a status mismatch
statusError(variant, req, callUrl, status, body) ==
    LET u == Unmarshal(body, ApiErrorShape(variant), ZeroApiError)
        e1 == IF u.err # "" THEN [u.val EXCEPT !.Message = body] ELSE u.val
        e2 == [e1 EXCEPT !.CodeExpected = req.ExpectedHttpStatusCodes]
        e3 == [e2 EXCEPT !.CodeReceived = status]
        e4 == [e3 EXCEPT !.ParsedUrl = callUrl]
    IN ApiError(e4)

\* response.Body/HttpStatusCode/HttpStatusMsg, then the classification
classify(variant, resp, callUrl, r) ==
    LET filled == [resp EXCEPT !.Body = r.body,
                               !.HttpStatusCode = r.StatusCode,
                               !.HttpStatusMsg = r.Status]
    IN IF isExpectedStatusCode(r.StatusCode, resp.Request.ExpectedHttpStatusCodes, 1)
       THEN filled
       ELSE [filled EXCEPT !.Error =
               statusError(variant, resp.Request, callUrl, r.StatusCode, r.body)]

(***************************************************************************)
(* call: what it returns once makeCall has returned resp.                  *)
(***************************************************************************)
RetNone == [kind |-> "none", apiErr |-> NilApiError]

RetNil == [kind |-> "nil", apiErr |-> NilApiError]

\* errors.New("credentials not set")
RetCredentials == [kind |-> "credentials not set", apiErr |-> NilApiError]

RetMarshal == [kind |-> UnsupportedTypeError, apiErr |-> NilApiError]

NoOut == [val |-> ZeroResponse, written |-> {}]

\* a slip: the body is decoded into the caller's value before resp.Error is looked at
callEnd_decodeFirst(resp, o) ==
    LET u == Unmarshal(resp.Body, ResponseShape, o.val)
        decoded == [val |-> u.val, written |-> o.written \cup u.written]
    IN IF ~resp.Error.nil
       THEN [ret |-> [kind |-> "ApiError", apiErr |-> resp.Error], out |-> decoded]
       ELSE [ret |-> IF u.err # "" THEN [kind |-> u.err, apiErr |-> NilApiError]
                     ELSE RetNil,
             out |-> decoded]

\* if resp.Error != nil { return resp.Error }; return json.Unmarshal(resp.Body, response)
callEnd(resp, o) ==
    IF ~resp.Error.nil
    THEN [ret |-> [kind |-> "ApiError", apiErr |-> resp.Error], out |-> o]
    ELSE LET u == Unmarshal(resp.Body, ResponseShape, o.val) IN
         [ret |-> IF u.err # "" THEN [kind |-> u.err, apiErr |-> NilApiError]
                  ELSE RetNil,
          out |-> [val |-> u.val, written |-> o.written \cup u.written]]

(***************************************************************************)
(* The state machine: one call at a time, from an entry point to its       *)
(* return.  The call stops where it hands control to code outside the      *)
(* package: the header function, the transport, the body stream.  trace    *)
(* lists the steps the call has taken.                                     *)
(***************************************************************************)
NoArgs ==
    [variant |-> "http", entry |-> "", method |-> "", expected |-> << >>,
     client |-> [HttpBaseUrl |-> << >>, Credentials |-> FALSE],
     path |-> << >>, query |-> << >>, reqVal |-> [kind |-> "nil"], ctxNil |-> FALSE]

NoHdr == [n |-> 0, path |-> << >>, body |-> << >>]

NoWire == [n |-> 0, method |-> "", url |-> << >>, body |-> << >>]

NoRes == [got |-> FALSE, err |-> << >>, StatusCode |-> 0, Status |-> << >>,
          body |-> << >>, readErr |-> << >>]

\* no listen loop, query string, slice or concurrent call is under way
NoWs == [phase |-> "off"]

NoQp == [phase |-> "off"]

NoSd == [phase |-> "off"]

NoCc == [phase |-> "off"]

SideIdle ==
    /\ ws = NoWs
    /\ qp = NoQp
    /\ sd = NoSd
    /\ cc = NoCc

HttpIdle ==
    /\ pc = "idle"
    /\ args = NoArgs
    /\ request = NoRequest
    /\ local = NoLocal
    /\ trace = << >>
    /\ hdr = NoHdr
    /\ wire = NoWire
    /\ res = NoRes
    /\ response = ApiResponse(NoRequest)
    /\ ret = RetNone
    /\ out = NoOut

Init == HttpIdle /\ SideIdle

\* a slip: no credentials guard
credentialsMissing_never(variant, client) == FALSE

\* the credentials guard of Call (core.go) and call (part_003); http.go has none
credentialsMissing(variant, client) ==
    variant # "http" /\ ~client.Credentials

\* call/Call from its first line to the point where makeCall invokes headersFunc
callBegin(a) ==
    /\ args' = a
    /\ hdr' = NoHdr
    /\ wire' = NoWire
    /\ res' = NoRes
    /\ IF credentialsMissing(a.variant, a.client)
       THEN /\ pc' = "done"
            /\ ret' = RetCredentials
            /\ trace' = << >>
            /\ UNCHANGED <<request, local, response, out>>
       ELSE LET mb == Marshal(a.reqVal) IN
            IF mb.err # ""
            THEN /\ pc' = "done"
                 /\ ret' = RetMarshal
                 /\ trace' = <<"marshal">>
                 /\ UNCHANGED <<request, local, response, out>>
            ELSE LET rq == apiRequest(a.path, a.query, a.method, mb.bytes,
                                      a.expected, a.client)
                     mc == makeCallBegin(a.variant, rq, a.ctxNil)
                     ce == callEnd(mc.response, NoOut)
                 IN /\ request' = rq
                    /\ local' = mc.local
                    /\ response' = mc.response
                    /\ trace' = <<"marshal">> \o mc.trace
                    /\ out' = NoOut
                    /\ IF mc.failed
                       THEN pc' = "done" /\ ret' = ce.ret
                       ELSE pc' = "headers" /\ ret' = RetNone

\* HttpGet, HttpPost, HttpPut, HttpPatch, HttpDelete of http.go
HttpEntry ==
    /\ pc = "idle"
    /\ UNCHANGED sideVars
    /\ \E entry \in HttpEntries, client \in Clients, path \in Paths,
          query \in Queries, expected \in ExpectedLists,
          reqVal \in CallerRequests, ctxNil \in BOOLEAN :
         /\ client.Credentials
         /\ callBegin([variant |-> "http", entry |-> entry,
                       method |-> entryMethod(entry),
                       expected |-> expected, client |-> client, path |-> path,
                       query |-> query, reqVal |-> reqVal, ctxNil |-> ctxNil])

\* Get, Post, Put, Patch, Delete of core.go and part_003
Wrapper ==
    /\ pc = "idle"
    /\ UNCHANGED sideVars
    /\ \E variant \in {"core", "part3"}, entry \in WrapperEntries,
          client \in Clients, path \in Paths, query \in Queries,
          reqVal \in CallerRequests, ctxNil \in BOOLEAN :
        callBegin([variant |-> variant, entry |-> entry,
                   method |-> entryMethod(entry),
                   expected |-> wrapperStatusCodes, client |-> client, path |-> path,
                   query |-> query, reqVal |-> reqVal, ctxNil |-> ctxNil])

\* Call of core.go, call of part_003: method and expected codes from the caller
Call ==
    /\ pc = "idle"
    /\ UNCHANGED sideVars
    /\ \E variant \in {"core", "part3"}, method \in WrapperMethods \cup {BadMethod},
          client \in Clients, path \in Paths, query \in Queries,
          expected \in ExpectedLists, reqVal \in CallerRequests, ctxNil \in BOOLEAN :
        callBegin([variant |-> variant, entry |-> "Call", method |-> method,
                   expected |-> expected, client |-> client, path |-> path,
                   query |-> query, reqVal |-> reqVal, ctxNil |-> ctxNil])

\* headersFunc(req, parsedUrl.Path, requestBody, request.Client, time.Now())
HeadersFunc ==
    /\ pc = "headers"
    /\ hdr' = [n |-> hdr.n + 1, path |-> local.path, body |-> local.requestBody]
    /\ trace' = Append(trace, "headers")
    /\ pc' = "do"
    /\ UNCHANGED <<args, request, local, wire, res, response, ret, out>>
    /\ UNCHANGED sideVars

\* the error the transport reports (connection, TLS, DNS, context cancelled)
TransportErrors == {<<"dial tcp: connection refused">>, <<"context canceled">>}

StatusLine(code) ==
    CASE code = 200 -> <<"200 OK">>
      [] code = 201 -> <<"201 Created">>
      [] code = 400 -> <<"400 Bad Request">>
      [] OTHER -> <<"000 ">>

\* res, err := request.Client.HttpClient().Do(req)
Do ==
    /\ pc = "do"
    /\ wire' = [n |-> wire.n + 1, method |-> request.HttpMethod,
                url |-> local.callUrl, body |-> local.requestBody]
    /\ trace' = Append(trace, "do")
    /\ \/ \E e \in TransportErrors :
            LET resp == transportFailed(response, e)
                ce == callEnd(resp, out)
            IN /\ res' = [NoRes EXCEPT !.err = e]
               /\ response' = resp
               /\ ret' = ce.ret
               /\ out' = ce.out
               /\ pc' = "done"
       \/ \E code \in StatusCodes :
            /\ res' = [NoRes EXCEPT !.got = TRUE, !.StatusCode = code,
                                    !.Status = StatusLine(code)]
            /\ pc' = "read"
            /\ UNCHANGED <<response, ret, out>>
    /\ UNCHANGED <<args, request, local, hdr>>
    /\ UNCHANGED sideVars

ReadErrors == {<<"unexpected EOF">>}

\* body, err := ioutil.ReadAll(res.Body), the classification and call's return
ReadAll ==
    /\ pc = "read"
    /\ \/ \E e \in ReadErrors :
            LET resp == readFailed(response, e)
                ce == callEnd(resp, out)
            IN /\ res' = [res EXCEPT !.readErr = e]
               /\ trace' = Append(trace, "readall")
               /\ response' = resp
               /\ ret' = ce.ret
               /\ out' = ce.out
       \/ \E body \in ResponseBodies :
            LET r == [res EXCEPT !.body = body]
                resp == classify(args.variant, response, local.callUrl, r)
                ce == callEnd(resp, out)
            IN /\ res' = r
               /\ trace' = trace \o <<"readall", "classify">>
                              \o (IF resp.Error.nil THEN <<"unmarshal">> ELSE << >>)
               /\ response' = resp
               /\ ret' = ce.ret
               /\ out' = ce.out
    /\ pc' = "done"
    /\ UNCHANGED <<args, request, local, hdr, wire>>
    /\ UNCHANGED sideVars

\* the caller has the result; the next call starts from scratch
Return ==
    /\ pc = "done"
    /\ pc' = "idle"
    /\ args' = NoArgs
    /\ request' = NoRequest
    /\ local' = NoLocal
    /\ trace' = << >>
    /\ hdr' = NoHdr
    /\ wire' = NoWire
    /\ res' = NoRes
    /\ response' = ApiResponse(NoRequest)
    /\ ret' = RetNone
    /\ out' = NoOut
    /\ UNCHANGED sideVars

Next ==
    \/ HttpEntry
    \/ Wrapper
    \/ Call
    \/ HeadersFunc
    \/ Do
    \/ ReadAll
    \/ Return

Spec == Init /\ [][Next]_vars

(***************************************************************************)
(* StrSliceDiff (unnamed/part_002): one run on two slices of strings.      *)
(***************************************************************************)
\* the strings the slices are made of: two differ in case only
SliceStrings == {"a", "A", "d"}

\* longest slice passed to StrSliceDiff
MaxSlice == 2

Slices == UNION {[1..n -> SliceStrings] : n \in 0..MaxSlice}

\* a slip: the comparison ignores case
found_ignoreCase(a, bv, i) ==
    \E j \in i..Len(a) :
        (IF a[j] = "A" THEN "a" ELSE a[j]) = (IF bv = "A" THEN "a" ELSE bv)

\* the inner loop from index i: found is set when some av == bv
RECURSIVE found(_, _, _)
found(a, bv, i) ==
    IF i > Len(a) THEN FALSE
    ELSE IF a[i] = bv THEN TRUE
    ELSE found(a, bv, i + 1)

\* the outer loop from index i of b, diff being what was appended so far
RECURSIVE StrSliceDiff(_, _, _, _)
StrSliceDiff(a, b, i, diff) ==
    IF i > Len(b) THEN diff
    ELSE StrSliceDiff(a, b, i + 1,
                      IF found(a, b[i], 1) THEN diff ELSE Append(diff, b[i]))

HttpRests == UNCHANGED httpVars

InitDiff ==
    /\ HttpIdle
    /\ ws = NoWs
    /\ qp = NoQp
    /\ cc = NoCc
    /\ \E a \in Slices, b \in Slices :
         sd = [phase |-> "call", a |-> a, b |-> b, diff |-> << >>]

\* diff := StrSliceDiff(a, b)
CallStrSliceDiff ==
    /\ sd.phase = "call"
    /\ sd' = [sd EXCEPT !.phase = "returned",
                        !.diff = StrSliceDiff(sd.a, sd.b, 1, << >>)]
    /\ HttpRests
    /\ UNCHANGED <<ws, qp, cc>>

NextDiff == CallStrSliceDiff

SpecDiff == InitDiff /\ [][NextDiff]_vars

(***************************************************************************)
(* AppendHttpQueryParam and HttpQueryParamSep (http.go): a query string    *)
(* built by successive appends.  Strings are sequences of characters.      *)
(***************************************************************************)
QueryParamFirstSep == "?"

QueryParamAdditionalSep == "&"

\* the query strings a caller starts from
StartQueries ==
    {EmptyQueryParams, <<"?", "a", "=", "1">>, <<"a", "=", "1">>, <<"?">>}

\* keys and values a caller passes: plain, empty, holding a separator
QueryKeys == {<<"k">>, <<"k", "&">>, <<"k", "?">>}

QueryValues == {<<"1">>, << >>, <<"&", "1">>}

\* most appends to one query string
MaxAppends == 2

\* strings.Contains(s, c) for a one-character c
Contains(s, c) == \E i \in DOMAIN s : s[i] = c

\* a slip: the two separators the other way round
HttpQueryParamSep_swapped(appended) ==
    IF appended THEN QueryParamFirstSep ELSE QueryParamAdditionalSep

HttpQueryParamSep(appended) ==
    IF appended THEN QueryParamAdditionalSep ELSE QueryParamFirstSep

\* fmt.Sprintf("%s%s%s=%s", queryParams, separator, key, value)
AppendHttpQueryParam(queryParams, key, value) ==
    queryParams
        \o <<HttpQueryParamSep(Contains(queryParams, QueryParamFirstSep))>>
        \o key \o <<"=">> \o value

InitQuery ==
    /\ HttpIdle
    /\ ws = NoWs
    /\ sd = NoSd
    /\ cc = NoCc
    /\ \E q \in StartQueries : qp = [phase |-> "build", q |-> q, log |-> << >>]

\* queryParams = AppendHttpQueryParam(queryParams, key, value); log keeps the
\* arguments of every append
AppendParam ==
    /\ qp.phase = "build"
    /\ Len(qp.log) < MaxAppends
    /\ \E key \in QueryKeys, value \in QueryValues :
         qp' = [qp EXCEPT
                  !.q = AppendHttpQueryParam(qp.q, key, value),
                  !.log = Append(qp.log, [queryParams |-> qp.q, key |-> key,
                                          value |-> value])]
    /\ HttpRests
    /\ UNCHANGED <<ws, sd, cc>>

NextQuery == AppendParam

SpecQuery == InitQuery /\ [][NextQuery]_vars

(***************************************************************************)
(* The WebSocket listen loops: ListenForWebSocketTextMessages (ws.go) and  *)
(* ListenForWebSocketMessages (websocket.go).  The peer's frames and the   *)
(* failures of the connection arrive one at a time; ReadMessage is that of *)
(* gorilla/websocket, to which the connection wrapper delegates.           *)
(***************************************************************************)
WebSocketTextMessage == 1

WebSocketBinaryMessage == 2

WebSocketCloseMessage == 8

\* the opcodes of ping and pong
PingPong == {9, 10}

\* most frames and failures a connection delivers
MaxFrames == 3

Payloads == {<<"p">>, <<"q">>}

Frame(type, payload) == [type |-> type, payload |-> payload, failure |-> ""]

\* the read fails without a frame: the read deadline expired, the connection was
\* closed from another goroutine
ReadFailure(e) == [type |-> 0, payload |-> << >>, failure |-> e]

ReadFailures ==
    {ReadFailure("i/o timeout"), ReadFailure("use of closed network connection")}

\* what can arrive next on the connection
Arrivals ==
    {Frame(t, p) : t \in {WebSocketTextMessage, WebSocketBinaryMessage},
                   p \in Payloads}
        \cup {Frame(t, << >>) : t \in PingPong}
        \cup {Frame(WebSocketCloseMessage, << >>)}
        \cup ReadFailures

\* the *CloseError ReadMessage returns for a close frame without status code
CloseError == "websocket: close 1005 (no status)"

\* (messageType, p, err) of c.conn.ReadMessage() for an arrival that makes it
\* return: a data frame comes back with its type and payload; a close frame is
\* answered inside the library and comes back as a *CloseError with messageType
\* -1; err is "" for nil
ReadMessage(arrival) ==
    IF arrival.failure # ""
    THEN [messageType |-> -1, p |-> << >>, err |-> arrival.failure]
    ELSE IF arrival.type = WebSocketCloseMessage
    THEN [messageType |-> -1, p |-> << >>, err |-> CloseError]
    ELSE [messageType |-> arrival.type, p |-> arrival.payload, err |-> ""]

Listeners == {"ListenForWebSocketTextMessages", "ListenForWebSocketMessages"}

\* the case of the switch that invokes messageHandler
handledType(listener) ==
    IF listener = "ListenForWebSocketTextMessages"
    THEN WebSocketTextMessage
    ELSE WebSocketBinaryMessage

\* a slip: a read error ends the loop with nil
listenStep_swallowError(listener, rm) ==
    IF rm.err # "" THEN [phase |-> "returned", err |-> ""]
    ELSE IF rm.messageType = handledType(listener)
    THEN [phase |-> "handler", err |-> ""]
    ELSE IF rm.messageType = WebSocketCloseMessage
    THEN [phase |-> "returned", err |-> ""]
    ELSE [phase |-> "read", err |-> ""]

\* a slip: the handler gets every data frame
listenStep_handleAll(listener, rm) ==
    IF rm.err # "" THEN [phase |-> "returned", err |-> rm.err]
    ELSE IF rm.messageType \in {WebSocketTextMessage, WebSocketBinaryMessage}
    THEN [phase |-> "handler", err |-> ""]
    ELSE IF rm.messageType = WebSocketCloseMessage
    THEN [phase |-> "returned", err |-> ""]
    ELSE [phase |-> "read", err |-> ""]

\* one turn of the loop after ReadMessage returned rm: where the loop goes and,
\* when it returns, the error it returns ("" for nil)
listenStep(listener, rm) ==
    IF rm.err # "" THEN [phase |-> "returned", err |-> rm.err]
    ELSE IF rm.messageType = handledType(listener)
    THEN [phase |-> "handler", err |-> ""]
    ELSE IF rm.messageType = WebSocketCloseMessage
    THEN [phase |-> "returned", err |-> ""]
    ELSE [phase |-> "read", err |-> ""]

\* arrived: what the connection delivered so far; reads: how often ReadMessage
\* returned; handled: the payloads messageHandler was invoked with
InitWs ==
    /\ HttpIdle
    /\ qp = NoQp
    /\ sd = NoSd
    /\ cc = NoCc
    /\ \E listener \in Listeners :
         ws = [phase |-> "read", listener |-> listener, arrived |-> << >>,
               reads |-> 0, message |-> << >>, handled |-> << >>, err |-> ""]

\* messageType, message, err := c.ReadMessage() and the switch; a ping or pong is
\* answered inside ReadMessage, which goes on reading
Read ==
    /\ ws.phase = "read"
    /\ Len(ws.arrived) < MaxFrames
    /\ \E arrival \in Arrivals :
         IF arrival.failure = "" /\ arrival.type \in PingPong
         THEN ws' = [ws EXCEPT !.arrived = Append(ws.arrived, arrival)]
         ELSE LET rm == ReadMessage(arrival)
                  step == listenStep(ws.listener, rm)
              IN ws' = [ws EXCEPT !.arrived = Append(ws.arrived, arrival),
                                  !.reads = ws.reads + 1,
                                  !.message = rm.p,
                                  !.phase = step.phase,
                                  !.err = step.err]
    /\ HttpRests
    /\ UNCHANGED <<qp, sd, cc>>

\* messageHandler(message) runs and returns
MessageHandler ==
    /\ ws.phase = "handler"
    /\ ws' = [ws EXCEPT !.handled = Append(ws.handled, ws.message),
                        !.phase = "read"]
    /\ HttpRests
    /\ UNCHANGED <<qp, sd, cc>>

NextWs ==
    \/ Read
    \/ MessageHandler

SpecWs == InitWs /\ [][NextWs]_vars

(***************************************************************************)
(* Several calls of http.go at once on one Client, each on a goroutine of  *)
(* its own.  The goroutines share the Client and the heap; a call keeps    *)
(* its descriptor and locals to itself and reaches its ApiResponse through *)
(* the pointer makeCall allocated for it.                                  *)
(***************************************************************************)
\* the calls issued concurrently
NumCalls == 2

CallIds == 1..NumCalls

ConcEntries == {"HttpGet", "HttpPost"}

ConcRequests == {[kind |-> "nil"], [kind |-> "order"]}

ConcClients ==
    {[HttpBaseUrl |-> GoodBaseUrl, Credentials |-> TRUE],
     [HttpBaseUrl |-> <<":", "h">>, Credentials |-> TRUE]}

ConcStatusCodes == {StatusOK, 400}

ConcBodies ==
    {<<"oops">>, <<"{", Quote("message"), ":", Quote("bad request"), "}">>}

NoCall ==
    [pc |-> "idle", args |-> NoArgs, res |-> NoRes, resp |-> 0, ret |-> RetNone,
     out |-> NoOut]

\* a slip: one ApiResponse kept at package level and reused by every call
newResponse_shared(i) == 1

\* response := &ApiResponse{Request: request}: a cell of the heap of the call's own
newResponse(i) == i

\* the apiRequest call builds from its arguments
requestOf(a) ==
    apiRequest(a.path, a.query, a.method, Marshal(a.reqVal).bytes, a.expected,
               a.client)

InitConc ==
    /\ HttpIdle
    /\ ws = NoWs
    /\ qp = NoQp
    /\ sd = NoSd
    /\ \E client \in ConcClients :
         cc = [phase |-> "run", client |-> client,
               heap |-> [a \in CallIds |-> ApiResponse(NoRequest)],
               calls |-> [i \in CallIds |-> NoCall]]

\* goroutine i enters HttpGet/HttpPost and runs to the header function
ConcCall(i) ==
    /\ cc.phase = "run"
    /\ cc.calls[i].pc = "idle"
    /\ \E entry \in ConcEntries, reqVal \in ConcRequests :
         LET a == [variant |-> "http", entry |-> entry,
                   method |-> entryMethod(entry), expected |-> <<StatusOK>>,
                   client |-> cc.client, path |-> <<"/", "o">>,
                   query |-> EmptyQueryParams, reqVal |-> reqVal,
                   ctxNil |-> FALSE]
             mc == makeCallBegin("http", requestOf(a), FALSE)
             addr == newResponse(i)
         IN cc' = [cc EXCEPT
                     !.heap[addr] = mc.response,
                     !.calls[i] =
                        [pc |-> IF mc.failed THEN "done" ELSE "headers",
                         args |-> a, res |-> NoRes, resp |-> addr,
                         ret |-> IF mc.failed
                                 THEN callEnd(mc.response, NoOut).ret
                                 ELSE RetNone,
                         out |-> NoOut]]
    /\ HttpRests
    /\ UNCHANGED <<ws, qp, sd>>

\* goroutine i is in the header function
ConcHeadersFunc(i) ==
    /\ cc.phase = "run"
    /\ cc.calls[i].pc = "headers"
    /\ cc' = [cc EXCEPT !.calls[i].pc = "do"]
    /\ HttpRests
    /\ UNCHANGED <<ws, qp, sd>>

\* goroutine i gets the transport's answer
ConcDo(i) ==
    /\ cc.phase = "run"
    /\ cc.calls[i].pc = "do"
    /\ LET c == cc.calls[i] IN
       \/ \E e \in TransportErrors :
            LET resp == transportFailed(cc.heap[c.resp], e)
            IN cc' = [cc EXCEPT
                        !.heap[c.resp] = resp,
                        !.calls[i].res = [NoRes EXCEPT !.err = e],
                        !.calls[i].ret = callEnd(resp, NoOut).ret,
                        !.calls[i].pc = "done"]
       \/ \E code \in ConcStatusCodes :
            cc' = [cc EXCEPT
                     !.calls[i].res = [NoRes EXCEPT !.got = TRUE,
                                                    !.StatusCode = code,
                                                    !.Status = StatusLine(code)],
                     !.calls[i].pc = "read"]
    /\ HttpRests
    /\ UNCHANGED <<ws, qp, sd>>

\* goroutine i reads the body, classifies the status and returns from call
ConcReadAll(i) ==
    /\ cc.phase = "run"
    /\ cc.calls[i].pc = "read"
    /\ \E body \in ConcBodies :
         LET c == cc.calls[i]
             r == [c.res EXCEPT !.body = body]
             resp == classify("http", cc.heap[c.resp],
                              callUrlOf(requestOf(c.args)), r)
             ce == callEnd(resp, NoOut)
         IN cc' = [cc EXCEPT
                     !.heap[c.resp] = resp,
                     !.calls[i].res = r,
                     !.calls[i].ret = ce.ret,
                     !.calls[i].out = ce.out,
                     !.calls[i].pc = "done"]
    /\ HttpRests
    /\ UNCHANGED <<ws, qp, sd>>

NextConc ==
    \/ \E i \in CallIds : ConcCall(i)
    \/ \E i \in CallIds : ConcHeadersFunc(i)
    \/ \E i \in CallIds : ConcDo(i)
    \/ \E i \in CallIds : ConcReadAll(i)

SpecConc == InitConc /\ [][NextConc]_vars

(***************************************************************************)
(* What a finished call went through, read off the caller's arguments and  *)
(* what the transport and the body stream answered.                        *)
(***************************************************************************)
Done == pc = "done"

\* makeCall was entered: the credentials guard and json.Marshal passed
MakeCallRan == Done /\ request.built

\* the URL the arguments concatenate to
ArgsUrl == args.client.HttpBaseUrl \o args.path \o args.query

\* of the base URLs of the model only GoodBaseUrl parses
UrlParseFails == args.client.HttpBaseUrl # GoodBaseUrl

ConstructionFails == ~UrlParseFails /\ (args.ctxNil \/ args.method = BadMethod)

TransportFails == res.err # << >>

BodyReadFails == res.got /\ res.readErr # << >>

\* the response was read in full: makeCall has a status code and a body
StatusObtained == MakeCallRan /\ res.got /\ res.readErr = << >>

FailedBeforeStatus ==
    MakeCallRan /\ (UrlParseFails \/ ConstructionFails \/ TransportFails \/ BodyReadFails)

StatusMismatch ==
    StatusObtained /\ res.StatusCode \notin Range(args.expected)

\* C1: once a call has a status code S (the response was read in full),
\* ApiResponse.Error is nil iff S is an element of the expected list E, and the
\* classification of S against every permutation of E gives the same answer.
C1_NilIffStatusExpected ==
    StatusObtained =>
        /\ response.Error.nil <=> (res.StatusCode \in Range(args.expected))
        /\ \A p \in Permutations(DOMAIN args.expected) :
             LET permuted == [response EXCEPT
                                !.Request.ExpectedHttpStatusCodes =
                                    [i \in DOMAIN args.expected |-> args.expected[p[i]]],
                                !.Error = NilApiError]
             IN classify(args.variant, permuted, local.callUrl, res).Error.nil
                    = response.Error.nil

\* C1 witness: the status matches the second of two different expected codes
C1_Witness ==
    /\ StatusObtained
    /\ args.expected = <<StatusOK, 201>>
    /\ res.StatusCode = 201
    /\ response.Error.nil

\* C2: in the ApiResponse of every finished makeCall, Error is non-nil iff the call
\* failed before a status code was obtained (URL parse, request construction,
\* transport, body read) or the status code is not in the expected list.
C2_ErrorIffFailedOrMismatch ==
    MakeCallRan =>
        (~response.Error.nil <=> (FailedBeforeStatus \/ StatusMismatch))

\* C2 witness: the body read fails although the status received was an expected one
C2_Witness ==
    /\ MakeCallRan
    /\ BodyReadFails
    /\ res.StatusCode \in Range(args.expected)
    /\ ~response.Error.nil

\* C3 as stated: CodeReceived is 0 exactly for the failures before a status code,
\* and on a status mismatch it is the received status and not 0.
C3_AsStated ==
    (MakeCallRan /\ ~response.Error.nil) =>
        /\ (response.Error.CodeReceived = 0) <=> FailedBeforeStatus
        /\ StatusMismatch =>
             /\ response.Error.CodeReceived = res.StatusCode
             /\ response.Error.CodeReceived # 0

\* C3: CodeReceived is 0 for every URL parse, request construction, transport and
\* body read failure; on a status mismatch it is the status code received, hence 0
\* on a mismatch exactly when the transport reported status code 0.
C3_CodeReceived ==
    (MakeCallRan /\ ~response.Error.nil) =>
        /\ FailedBeforeStatus => response.Error.CodeReceived = 0
        /\ StatusMismatch => response.Error.CodeReceived = res.StatusCode
        /\ (response.Error.CodeReceived = 0) <=>
              (FailedBeforeStatus \/ (StatusMismatch /\ res.StatusCode = 0))

\* C3 witness: a response with status code 0, which no expected list of the model holds
C3_Witness ==
    /\ StatusMismatch
    /\ res.StatusCode = 0
    /\ ~response.Error.nil
    /\ response.Error.CodeReceived = 0

\* the reason url.Parse gives for the two base URLs that do not parse
ExpectedParseReason ==
    IF args.client.HttpBaseUrl = <<":", "h">>
    THEN <<"missing protocol scheme">>
    ELSE <<"net/url: invalid control character in URL">>

\* C4: when base URL + path + query does not parse, the error's Message is
\* "invalid URL: <url> - <parse error>", ParsedUrl is the concatenated URL,
\* CodeReceived is 0, and neither the header function nor the transport was called.
C4_InvalidUrl ==
    (MakeCallRan /\ UrlParseFails) =>
        /\ ~response.Error.nil
        /\ response.Error.Message =
              <<"invalid URL: ">> \o ArgsUrl \o <<" - ", "parse \"">> \o ArgsUrl
                  \o <<"\": ">> \o ExpectedParseReason
        /\ response.Error.ParsedUrl = ArgsUrl
        /\ response.Error.CodeReceived = 0
        /\ hdr.n = 0
        /\ wire.n = 0
        /\ ret.kind = "ApiError" /\ ret.apiErr = response.Error

\* C4 witness: a call whose base URL has no scheme stopped at the URL parse
C4_Witness ==
    /\ MakeCallRan
    /\ args.client.HttpBaseUrl = <<":", "h">>
    /\ trace = <<"marshal", "urlparse">>
    /\ ~response.Error.nil

\* C5: on a status mismatch the error's Message is the decoded message member when
\* the body decodes into the error shape, and the raw body text when it does not
\* ({"message":"bad request"} gives "bad request", oops gives oops); the call
\* returns this one error and does not decode the body into the caller's value.
C5_MismatchMessage ==
    StatusMismatch =>
        LET u == Unmarshal(res.body, ApiErrorShape(args.variant), ZeroApiError) IN
        /\ ~response.Error.nil
        /\ response.Error.Message = IF u.err = "" THEN u.val.Message ELSE res.body
        /\ res.body = <<"{", Quote("message"), ":", Quote("bad request"), "}">>
              => response.Error.Message = <<"bad request">>
        /\ res.body = <<"oops">> => response.Error.Message = <<"oops">>
        /\ ret.kind = "ApiError" /\ ret.apiErr = response.Error
        /\ out = NoOut

\* C5 witness: a mismatch whose body is not JSON
C5_Witness ==
    /\ StatusMismatch
    /\ res.body = <<"oops">>
    /\ response.Error.Message = <<"oops">>

\* C6: on a status mismatch CodeExpected is the call's expected list, CodeReceived
\* the status received and ParsedUrl the call URL, whatever the body holds for
\* members of those names, also where ApiError decodes them (core.go).
C6_ContextFieldsAuthoritative ==
    StatusMismatch =>
        /\ response.Error.CodeExpected = args.expected
        /\ response.Error.CodeReceived = res.StatusCode
        /\ response.Error.ParsedUrl = ArgsUrl

\* C6 witness: core.go decodes ParsedUrl "evil" and CodeReceived 7 from the body,
\* and the error still carries the call's own values
C6_Witness ==
    /\ StatusMismatch
    /\ args.variant = "core"
    /\ res.StatusCode = 400
    /\ LET u == Unmarshal(res.body, ApiErrorShape("core"), ZeroApiError) IN
         /\ u.val.ParsedUrl = <<"evil">>
         /\ u.val.CodeReceived = 7
         /\ u.val.CodeExpected = <<7>>
    /\ response.Error.ParsedUrl = ArgsUrl
    /\ response.Error.CodeReceived = 400

\* the member of a JSON object body with the given key, JNull if there is none
MemberOf(body, key) ==
    LET v == ParseValue(body).v
        hits == IF checkValid(body) /\ v.type = "object"
                THEN {i \in DOMAIN v.m : v.m[i].key = key}
                ELSE {}
    IN IF hits = {} THEN JNull ELSE v.m[CHOOSE i \in hits : TRUE].val

\* the caller's response value holds exactly the members id (a string) and count
\* (a number) of the body read, and nothing else was stored
PopulatedFromBody ==
    LET id == MemberOf(res.body, "id")
        count == MemberOf(res.body, "count")
    IN /\ out.written = (IF id.type = "string" THEN {"Id"} ELSE {})
                          \cup (IF count.type = "number" THEN {"Count"} ELSE {})
       /\ out.val.Id = (IF id.type = "string" THEN GoStr(id.s) ELSE << >>)
       /\ out.val.Count = (IF count.type = "number" THEN count.n ELSE 0)

\* the body read has a member id or count of the wrong type
IllTypedMember ==
    \/ MemberOf(res.body, "id").type \notin {"string", "null"}
    \/ MemberOf(res.body, "count").type \notin {"number", "null"}

StatusAccepted == StatusObtained /\ res.StatusCode \in Range(args.expected)

\* C7 as stated: a finished call ends either with a nil error and the response value
\* populated from the body, or with a non-nil error and the response value not
\* populated; never an error together with a (partly) populated value.
C7_AsStated ==
    Done =>
        \/ ret.kind = "nil" /\ StatusAccepted /\ PopulatedFromBody
        \/ ret.kind # "nil" /\ out = NoOut

\* C7: a finished call ends in exactly one of: nil, with every well-typed member of
\* the body stored in the response value (none for null or {}); the credentials
\* error, the serialization error, an ApiError or a JSON syntax error, with the
\* response value untouched; or json.Unmarshal's type error for a body of accepted
\* status, with the well-typed members of that body already stored.
C7_OutcomeOfCall ==
    Done =>
        \/ /\ ret.kind = "nil"
           /\ StatusAccepted /\ checkValid(res.body) /\ ~IllTypedMember
           /\ PopulatedFromBody
        \/ /\ ret.kind \in {"credentials not set", UnsupportedTypeError}
           /\ ~request.built
           /\ out = NoOut
        \/ /\ ret.kind = "ApiError"
           /\ MakeCallRan /\ ~response.Error.nil /\ ret.apiErr = response.Error
           /\ out = NoOut
        \/ /\ ret.kind = SyntaxError
           /\ StatusAccepted /\ ~checkValid(res.body)
           /\ out = NoOut
        \/ /\ ret.kind = UnmarshalTypeError
           /\ StatusAccepted /\ checkValid(res.body)
           /\ PopulatedFromBody

\* C7 witness: the body {"id":7,"count":7} of an accepted status gives the type
\* error for id together with a stored Count
C7_Witness ==
    /\ Done
    /\ ret.kind = UnmarshalTypeError
    /\ out.written = {"Count"}
    /\ out.val.Count = 7

\* the method each wrapper of core.go is to pass
FixedMethod ==
    [Post |-> "POST", Get |-> "GET", Put |-> "PUT", Delete |-> "DELETE",
     Patch |-> "PATCH"]

\* C8: Post, Get, Put, Delete and Patch of core.go fix their method and expect only
\* 200: for every other status received (201 included) they return an ApiError with
\* CodeExpected [200] and CodeReceived the status received; Call and the Http*
\* entry points classify against the list the caller passed.
C8_WrappersExpectOnlyOK ==
    /\ (MakeCallRan /\ args.entry \in WrapperEntries) =>
          /\ request.HttpMethod = FixedMethod[args.entry]
          /\ wire.n = 1 => wire.method = FixedMethod[args.entry]
          /\ request.ExpectedHttpStatusCodes = <<200>>
          /\ StatusObtained =>
                IF res.StatusCode = 200 THEN response.Error.nil
                ELSE /\ ret.kind = "ApiError"
                     /\ ret.apiErr.CodeExpected = <<200>>
                     /\ ret.apiErr.CodeReceived = res.StatusCode
    /\ (MakeCallRan /\ args.entry \notin WrapperEntries) =>
          /\ request.ExpectedHttpStatusCodes = args.expected
          /\ StatusObtained =>
                IF res.StatusCode \in Range(args.expected) THEN response.Error.nil
                ELSE /\ ret.kind = "ApiError"
                     /\ ret.apiErr.CodeExpected = args.expected

\* C8 witness: Post of core.go receives 201 Created
C8_Witness ==
    /\ StatusObtained
    /\ args.variant = "core"
    /\ args.entry = "Post"
    /\ res.StatusCode = 201
    /\ ret.kind = "ApiError"
    /\ ret.apiErr.CodeExpected = <<200>>
    /\ ret.apiErr.CodeReceived = 201

\* C9: in core.go (and part_003) a call with a Client whose Credentials is nil
\* returns the error "credentials not set" as a value; the request value was not
\* serialized, the header function not called, the transport not executed.
C9_CredentialsGuard ==
    (pc # "idle" /\ args.variant \in {"core", "part3"} /\ ~args.client.Credentials) =>
        /\ pc = "done"
        /\ ret = RetCredentials
        /\ trace = << >>
        /\ ~request.built
        /\ hdr.n = 0
        /\ wire.n = 0
        /\ out = NoOut

\* C9 witness: Post of core.go without credentials and with a request value that
\* json.Marshal rejects returns the credentials error, not the serialization error
C9_Witness ==
    /\ Done
    /\ args.variant = "core"
    /\ args.entry = "Post"
    /\ ~args.client.Credentials
    /\ args.reqVal.kind = "chan"
    /\ ret.kind = "credentials not set"

\* the steps of makeCall, in order
PipelineOrder == <<"urlparse", "newrequest", "headers", "do", "readall", "classify">>

IsPipelineStep(e) == e \in Range(PipelineOrder)

Count(e) == Cardinality({i \in DOMAIN trace : trace[i] = e})

IsPrefix(s, t) == Len(s) <= Len(t) /\ SubSeq(t, 1, Len(s)) = s

\* C10: the steps a call has taken are a prefix of URL parse, request construction,
\* header function, transport, body read, classification; the header function has
\* run once when URL parse and request construction succeeded and not at all
\* otherwise, the transport at most once and only after the header function.
C10_StepsInOrder ==
    /\ IsPrefix(SelectSeq(trace, IsPipelineStep), PipelineOrder)
    /\ hdr.n = Count("headers")
    /\ wire.n = Count("do")
    /\ hdr.n <= 1
    /\ wire.n <= 1
    /\ wire.n = 1 => hdr.n = 1
    /\ Done =>
          (hdr.n = 1 <=> (MakeCallRan /\ ~UrlParseFails /\ ~ConstructionFails))

\* C10 witness: a call that went through all six steps
C10_Witness ==
    /\ Done
    /\ SelectSeq(trace, IsPipelineStep) = PipelineOrder
    /\ hdr.n = 1
    /\ wire.n = 1

(***************************************************************************)
(* The request body: what call serializes, what makeCall hands to the      *)
(* header function and what it puts on the wire.                           *)
(***************************************************************************)
\* the bytes json.Marshal gave for the caller's request value
SerializedRequest == Marshal(args.reqVal).bytes

HeadersCalled == request.built /\ hdr.n > 0

Sent == request.built /\ wire.n > 0

\* C11: in http.go's makeCall the body put on the wire and the body handed to the
\* header function are the same value; that value is the serialized request iff the
\* method is POST, PUT or PATCH, and for GET and DELETE both are empty whatever
\* request value the caller passed.
C11_HttpBodySelection ==
    (args.variant = "http" /\ HeadersCalled) =>
        /\ Sent => wire.body = hdr.body
        /\ (hdr.body = SerializedRequest)
              <=> (args.method \in {MethodPost, MethodPut, MethodPatch})
        /\ args.method \in {MethodGet, MethodDelete} => hdr.body = << >>
        /\ Sent => wire.method = args.method

\* C11 witness: HttpPatch with an order as request value has sent its serialization
C11_Witness ==
    /\ args.variant = "http"
    /\ args.entry = "HttpPatch"
    /\ args.reqVal.kind = "order"
    /\ Sent
    /\ wire.body = SerializedRequest
    /\ hdr.body = SerializedRequest
    /\ SerializedRequest # << >>

\* C12 as stated: the Body of the apiRequest a call builds is populated only when
\* the method is body-carrying in its variant, and the descriptor a GET or DELETE
\* call returns through ApiResponse.Request has an empty Body.
C12_AsStated ==
    request.built =>
        /\ request.Body # << >> => args.method \in bodyCarrying(args.variant)
        /\ (Done /\ args.method \in {MethodGet, MethodDelete}) =>
              response.Request.Body = << >>

\* C12: the Body of the apiRequest a call builds is the serialized request value
\* whatever the method, and it is what ApiResponse.Request shows after the call;
\* the method decides only what makeCall sends: for a method that is not
\* body-carrying in its variant (GET and DELETE, PATCH outside http.go) the body
\* handed to the header function and put on the wire is empty.
C12_DescriptorBody ==
    request.built =>
        /\ request.Body = SerializedRequest
        /\ request.Body # << >>
        /\ Done => response.Request = request
        /\ (HeadersCalled /\ args.method \notin bodyCarrying(args.variant)) =>
              hdr.body = << >>
        /\ (Sent /\ args.method \notin bodyCarrying(args.variant)) =>
              wire.body = << >>

\* C12 witness: a finished GET whose descriptor holds the serialized order while
\* nothing went on the wire as body
C12_Witness ==
    /\ Done
    /\ Sent
    /\ args.method = MethodGet
    /\ args.reqVal.kind = "order"
    /\ response.Request.Body = SerializedRequest
    /\ response.Request.Body # << >>
    /\ wire.body = << >>

\* C20: in core.go and part_003 PATCH is not body-carrying: a Patch call (and a
\* Call with method PATCH) serializes the caller's request value into the
\* descriptor, hands an empty body to the header function and puts an empty body
\* on the wire, and the dropped body is no cause of error: the call's error is
\* non-nil only for the failures and the status mismatch of any other call.
C20_CorePatchBodyDropped ==
    (args.variant \in {"core", "part3"} /\ args.method = MethodPatch
        /\ request.built) =>
        /\ request.Body = SerializedRequest
        /\ request.Body # << >>
        /\ HeadersCalled => hdr.body = << >>
        /\ Sent => wire.body = << >> /\ wire.method = MethodPatch
        /\ Done => (~response.Error.nil <=> (FailedBeforeStatus \/ StatusMismatch))
        /\ (Done /\ StatusAccepted) => response.Error.nil

\* C20 witness: core.go's Patch with an order went out without body and came back
\* with 200 and no error
C20_Witness ==
    /\ Done
    /\ args.variant = "core"
    /\ args.entry = "Patch"
    /\ args.reqVal.kind = "order"
    /\ request.Body = SerializedRequest
    /\ Sent
    /\ wire.body = << >>
    /\ hdr.body = << >>
    /\ res.StatusCode = StatusOK
    /\ response.Error.nil
    /\ ret = RetNil

\* the body read is valid JSON without a member that encoding/json stores into
\* the field tagged `message` (it matches the key exactly or ignoring case)
NoMessageMember ==
    LET v == ParseValue(res.body).v IN
    /\ checkValid(res.body)
    /\ v.type = "object" => \A i \in DOMAIN v.m : FoldKey(v.m[i].key) # "message"

\* json.Unmarshal(body, &ApiError{}) reports no error
DecodesIntoErrorShape ==
    Unmarshal(res.body, ApiErrorShape(args.variant), ZeroApiError).err = ""

\* C18: on a status mismatch whose body is valid JSON that decodes into the error
\* shape and carries no message member ({} or {"error":"x"}), the raw-text fallback
\* is not taken: the error's Message is the empty string, no field of the error
\* holds the body text, and ApiResponse.Body still holds the body.
C18_NoFallbackWithoutMessage ==
    (StatusMismatch /\ DecodesIntoErrorShape /\ NoMessageMember) =>
        /\ ~response.Error.nil
        /\ response.Error.Message = << >>
        /\ response.Error.ParsedUrl = local.callUrl
        /\ response.Error.ParsedUrl # res.body
        /\ response.Error.CodeExpected = args.expected
        /\ response.Error.CodeReceived = res.StatusCode
        /\ response.Body = res.body
        /\ ret.kind = "ApiError" /\ ret.apiErr = response.Error

\* C18 witness: a 400 with the body {"error":"x"}
C18_Witness ==
    /\ StatusMismatch
    /\ res.StatusCode = 400
    /\ res.body = <<"{", Quote("error"), ":", Quote("x"), "}">>
    /\ DecodesIntoErrorShape
    /\ NoMessageMember
    /\ response.Error.Message = << >>
    /\ response.Body = res.body

(***************************************************************************)
(* StrSliceDiff.                                                           *)
(***************************************************************************)
\* C17: StrSliceDiff(a, b) is the sequence of the elements of b that do not occur
\* in a under exact, case-sensitive comparison, in b's order; its length is 0 when
\* b is empty or every element of b occurs in a, and it is b when a is empty.
C17_StrSliceDiff ==
    sd.phase = "returned" =>
        /\ sd.diff = SelectSeq(sd.b, LAMBDA x : x \notin Range(sd.a))
        /\ (sd.b = << >> \/ Range(sd.b) \subseteq Range(sd.a)) => Len(sd.diff) = 0
        /\ sd.a = << >> => sd.diff = sd.b

\* C17 witness: b holds a string of a and the same string in the other case
C17_Witness ==
    /\ sd.phase = "returned"
    /\ sd.a = <<"a", "d">>
    /\ sd.b = <<"A", "a">>
    /\ sd.diff = <<"A">>

(***************************************************************************)
(* AppendHttpQueryParam.                                                   *)
(***************************************************************************)
Appended == qp.phase = "build" /\ Len(qp.log) > 0

LastAppend == qp.log[Len(qp.log)]

\* how often the character c occurs in s
Occurrences(s, c) == Cardinality({i \in DOMAIN s : s[i] = c})

\* the query string started empty and no key or value appended holds a character of cs
AppendsFreeOf(cs) ==
    /\ Appended
    /\ qp.log[1].queryParams = EmptyQueryParams
    /\ \A i \in DOMAIN qp.log :
         Range(qp.log[i].key) \cap cs = {} /\ Range(qp.log[i].value) \cap cs = {}

\* the result of the last append is Q, a separator, and k=v unescaped; the
\* separator is "?" when Q is empty and "&" when Q holds a "?"
LastAppendShape ==
    \E sep \in {"?", "&"} :
        /\ qp.q = LastAppend.queryParams \o <<sep>> \o LastAppend.key \o <<"=">>
                     \o LastAppend.value
        /\ LastAppend.queryParams = << >> => sep = "?"
        /\ Contains(LastAppend.queryParams, "?") => sep = "&"

\* C16 as stated: every append returns Q, the separator and k=v, and n >= 1 appends
\* from "" with keys and values free of "?" give a string with exactly one "?", its
\* first character, and n-1 "&".
C16_AsStated ==
    Appended =>
        /\ LastAppendShape
        /\ AppendsFreeOf({"?"}) =>
             /\ Occurrences(qp.q, "?") = 1
             /\ qp.q[1] = "?"
             /\ Occurrences(qp.q, "&") = Len(qp.log) - 1

\* C16: every append returns Q, the separator and k=v unescaped, the separator being
\* "?" when Q is empty and "&" when Q holds a "?"; n >= 1 appends from "" with keys
\* and values free of "?" give a string with exactly one "?", its first character,
\* and n-1 "&" when the keys and values are free of "&" as well.
C16_AppendQueryParam ==
    Appended =>
        /\ LastAppendShape
        /\ AppendsFreeOf({"?"}) =>
             /\ Occurrences(qp.q, "?") = 1
             /\ qp.q[1] = "?"
        /\ AppendsFreeOf({"?", "&"}) =>
             Occurrences(qp.q, "&") = Len(qp.log) - 1

\* C16 witness: two appends from the empty string, the second with an empty value
C16_Witness ==
    /\ Appended
    /\ Len(qp.log) = 2
    /\ AppendsFreeOf({"?", "&"})
    /\ qp.q = <<"?", "k", "=", "1", "&", "k", "=">>

(***************************************************************************)
(* The WebSocket listen loops.                                             *)
(***************************************************************************)
Listening == ws.phase \in {"read", "handler", "returned"}

LastArrival == ws.arrived[Len(ws.arrived)]

\* a data frame of the type the listener hands to messageHandler
IsHandledFrame(a) == a.failure = "" /\ a.type = handledType(ws.listener)

IsCloseFrame(a) == a.failure = "" /\ a.type = WebSocketCloseMessage

IsReadFailure(a) == a.failure # ""

\* the payloads of the handled data frames among s, in arrival order
HandledPayloads(s) ==
    LET data == SelectSeq(s, IsHandledFrame)
    IN [i \in DOMAIN data |-> data[i].payload]

\* the payloads messageHandler was invoked with, the running invocation included
Invocations ==
    ws.handled \o (IF ws.phase = "handler" THEN <<ws.message>> ELSE << >>)

\* the connection delivered N >= 0 handled data frames and then a close frame
DataThenClose ==
    /\ Listening
    /\ Len(ws.arrived) > 0
    /\ IsCloseFrame(LastArrival)
    /\ \A i \in 1..(Len(ws.arrived) - 1) : IsHandledFrame(ws.arrived[i])

\* C13 as stated: when the connection delivers N >= 0 data frames of the handled
\* type and then a close frame, the handler has been invoked exactly N times, with
\* the payloads in arrival order and one invocation at a time, and the loop has
\* returned nil.
C13_AsStated ==
    /\ Listening =>
         /\ ws.phase = "handler" => ws.message = LastArrival.payload
         /\ Len(Invocations) <= Len(ws.arrived)
    /\ DataThenClose =>
         /\ ws.handled = HandledPayloads(ws.arrived)
         /\ Len(ws.handled) = Len(ws.arrived) - 1
         /\ ws.phase = "returned"
         /\ ws.err = ""

\* C14: when a read fails (the read deadline expired, the connection was closed
\* from another goroutine) the loop has returned that same error: the failing read
\* is the last read, the handler was invoked for the handled data frames before it
\* and not after, and the error returned is never nil.
C14_ReadErrorReturned ==
    (Listening /\ \E i \in DOMAIN ws.arrived : IsReadFailure(ws.arrived[i])) =>
        /\ IsReadFailure(LastArrival)
        /\ \A i \in 1..(Len(ws.arrived) - 1) : ~IsReadFailure(ws.arrived[i])
        /\ ws.phase = "returned"
        /\ ws.err = LastArrival.failure
        /\ ws.err # ""
        /\ ws.handled = HandledPayloads(ws.arrived)
        /\ ws.reads = Cardinality({i \in DOMAIN ws.arrived :
                                      ws.arrived[i].type \notin PingPong})

\* C14 witness: the read deadline expires after one handled text frame
C14_Witness ==
    /\ Listening
    /\ ws.listener = "ListenForWebSocketTextMessages"
    /\ ws.arrived = <<Frame(WebSocketTextMessage, <<"p">>), ReadFailure("i/o timeout")>>
    /\ ws.phase = "returned"
    /\ ws.err = "i/o timeout"
    /\ ws.handled = <<<<"p">>>>

\* C19: a frame that is neither of the handled data type nor a close frame is
\* dropped: the handler is invoked for the handled data frames and for no other
\* frame, and after such a frame the loop is at its next read; the loop has
\* returned only when the last thing the connection delivered was a close frame or
\* a read failure, so it has not returned while none of them arrived.
C19_UnhandledFramesDropped ==
    Listening =>
        /\ Invocations = HandledPayloads(ws.arrived)
        /\ (Len(ws.arrived) > 0 /\ ~IsHandledFrame(LastArrival)
              /\ ~IsCloseFrame(LastArrival) /\ ~IsReadFailure(LastArrival)) =>
             ws.phase = "read"
        /\ ws.phase = "returned" =>
             /\ Len(ws.arrived) > 0
             /\ IsCloseFrame(LastArrival) \/ IsReadFailure(LastArrival)
        /\ (\A i \in DOMAIN ws.arrived :
               ~IsCloseFrame(ws.arrived[i]) /\ ~IsReadFailure(ws.arrived[i])) =>
             ws.phase # "returned"

\* C19 witness: the text listener got a binary frame and a ping, then handled a text frame
C19_Witness ==
    /\ Listening
    /\ ws.listener = "ListenForWebSocketTextMessages"
    /\ ws.arrived = <<Frame(WebSocketBinaryMessage, <<"p">>), Frame(9, << >>),
                      Frame(WebSocketTextMessage, <<"q">>)>>
    /\ ws.handled = <<<<"q">>>>
    /\ ws.phase = "read"
    /\ ws.reads = 2

(***************************************************************************)
(* Concurrent calls on one Client.                                         *)
(***************************************************************************)
\* the ApiResponse call c has when it runs alone: a function of its own arguments
\* and of what the transport answered to it
OwnResponse(c) ==
    LET mc == makeCallBegin("http", requestOf(c.args), c.args.ctxNil) IN
    IF mc.failed THEN mc.response
    ELSE IF c.res.err # << >> THEN transportFailed(mc.response, c.res.err)
    ELSE IF c.pc = "done" THEN classify("http", mc.response, mc.local.callUrl, c.res)
    ELSE mc.response

\* C15: in every interleaving of the calls issued concurrently on one Client, the
\* ApiResponse a call reaches through its pointer (Request, Body, HttpStatusCode,
\* HttpStatusMsg, Error), and what the call returns, are those of the same call
\* run alone on its own request and its own transport answer; no two calls hold
\* the same ApiResponse, so none reads or writes what another wrote.
C15_CallsIndependent ==
    cc.phase = "run" =>
        \A i \in CallIds :
            LET c == cc.calls[i] IN
            c.pc # "idle" =>
                /\ cc.heap[c.resp] = OwnResponse(c)
                /\ cc.heap[c.resp].Request = requestOf(c.args)
                /\ c.pc = "done" =>
                     /\ c.ret = callEnd(OwnResponse(c), NoOut).ret
                     /\ c.out = callEnd(OwnResponse(c), NoOut).out
                /\ \A j \in CallIds \ {i} :
                     cc.calls[j].pc # "idle" => cc.calls[j].resp # c.resp

\* C15 witness: two calls are over, a GET answered 200 and a POST answered 400, each
\* with its own descriptor, body, status and error
C15_Witness ==
    /\ cc.phase = "run"
    /\ cc.calls[1].pc = "done" /\ cc.calls[2].pc = "done"
    /\ cc.calls[1].args.method = MethodGet
    /\ cc.calls[2].args.method = MethodPost
    /\ cc.heap[cc.calls[1].resp].HttpStatusCode = StatusOK
    /\ cc.heap[cc.calls[1].resp].Error.nil
    /\ cc.heap[cc.calls[1].resp].Request.HttpMethod = MethodGet
    /\ cc.heap[cc.calls[2].resp].HttpStatusCode = 400
    /\ cc.heap[cc.calls[2].resp].Error.Message = <<"bad request">>
    /\ cc.heap[cc.calls[2].resp].Request.HttpMethod = MethodPost

====
